---- MODULE Spec2Model ----
(***************************************************************************)
(* Model of the voting system's hash-chained ledger.                       *)
(*                                                                         *)
(* Server (src/server.js): the module-level state chain / candidates /     *)
(* votingActive and the Express handlers that change it.  Every handler    *)
(* is synchronous, so Node's event loop runs it as one atomic step.        *)
(*                                                                         *)
(* Client (src/services/blockchainService.ts): the ledger the              *)
(* client-simulated App keeps in the browser, whose async methods are      *)
(* steps between awaits (SpecClient).                                      *)
(*                                                                         *)
(* OTP routes of the server (SpecOtp), the server-backed App               *)
(* (src/unnamed/part_002, SpecApp) and its Login component                 *)
(* (src/components/AdminDashboard.tsx, SpecLogin): otpStore is the         *)
(* server's store of issued codes, app and login the state of the two      *)
(* React components of one browser.                                        *)
(*                                                                         *)
(* Strings are sequences of symbols, numbers are integers.  A digest is    *)
(* Difficulty leading digits followed by one symbol for the rest: the      *)
(* leading digits are computed from the input (so proof-of-work has to     *)
(* search) and the last symbol names the input, which makes the function   *)
(* collision-free.                                                         *)
(***************************************************************************)
EXTENDS Integers, Sequences, FiniteSets, TLC

VARIABLES chain, candidates, votingActive, now, inflight, last,
          otpStore, app, login

vars == <<chain, candidates, votingActive, now, inflight, last,
         otpStore, app, login>>

-----------------------------------------------------------------------------
(* Bounds of the model *)

\* largest value Date.now() returns (milliseconds since server start)
MaxTime == 1
\* largest number of entries the candidate registry is let grow to
MaxCands == 2
\* largest number of vote requests in flight at once
MaxInflight == 2
\* radix of the digest's leading digits (16 in the program)
HexBase == 2
\* longest chain the ledger kept in the browser is let grow to
MaxClientChain == 3
\* number of OTP lifetimes the server's clock is let run through
MaxOtpLifetimes == 2
\* largest number of calls the browser has in progress at once
MaxAppCalls == 2

\* const difficulty = 2
Difficulty == 2

-----------------------------------------------------------------------------
(* Strings *)

Digits == <<"0", "1", "2", "3", "4", "5", "6", "7", "8", "9">>

\* every symbol a string of the model is made of
Alphabet ==
  Digits \o
  << "a", "b", "c", "A", "B", "C", " ", "G", "E", "N", "S", "I", "@",
     "\"", "\\", "{", "}", ",",
     "\"voterId\":", "\"candidateId\":", "\"timestamp\":" >>

RECURSIVE Pow(_, _)
Pow(b, e) == IF e = 0 THEN 1 ELSE b * Pow(b, e - 1)

\* Number -> decimal string (the + of a number and a string)
RECURSIVE NumToString(_)
NumToString(n) ==
  IF n < 10 THEN <<Digits[n + 1]>>
  ELSE NumToString(n \div 10) \o <<Digits[(n % 10) + 1]>>

Lower(ch) ==
  CASE ch = "A" -> "a"
    [] ch = "B" -> "b"
    [] ch = "C" -> "c"
    [] OTHER -> ch

\* String.prototype.toLowerCase
ToLowerCase(s) == [i \in 1..Len(s) |-> Lower(s[i])]

RECURSIVE TrimStart(_)
TrimStart(s) ==
  IF s # <<>> /\ Head(s) = " " THEN TrimStart(Tail(s)) ELSE s

RECURSIVE TrimEnd(_)
TrimEnd(s) ==
  IF s # <<>> /\ s[Len(s)] = " " THEN TrimEnd(SubSeq(s, 1, Len(s) - 1)) ELSE s

\* String.prototype.trim
Trim(s) == TrimEnd(TrimStart(s))

\* JSON.stringify of a string: quoted, with quote and backslash escaped
RECURSIVE JsonEscape(_)
JsonEscape(s) ==
  IF s = <<>> THEN <<>>
  ELSE (IF Head(s) \in {"\"", "\\"} THEN <<"\\", Head(s)>> ELSE <<Head(s)>>)
       \o JsonEscape(Tail(s))

JsonString(s) == <<"\"">> \o JsonEscape(s) \o <<"\"">>

\* JSON.stringify(data): keys in insertion order; the server's genesis
\* payload has no timestamp
JsonStringify(data) ==
  <<"{", "\"voterId\":">> \o JsonString(data.voterId)
  \o <<",", "\"candidateId\":">> \o JsonString(data.candidateId)
  \o (IF "timestamp" \in DOMAIN data
        THEN <<",", "\"timestamp\":">> \o NumToString(data.timestamp)
        ELSE <<>>)
  \o <<"}">>

-----------------------------------------------------------------------------
(* SHA-256 *)

\* the code of a symbol of the alphabet: its position, a digit's its value
SymbolTable ==
  [ch \in {Alphabet[i] : i \in 1..Len(Alphabet)} |->
     (CHOOSE i \in 1..Len(Alphabet) : Alphabet[i] = ch) - 1]

\* any other symbol is the tail of a digest; its code is its length
SymbolCode(ch) == IF ch \in DOMAIN SymbolTable THEN SymbolTable[ch] ELSE Len(ch)

RECURSIVE SumCodes(_, _)
SumCodes(s, i) == IF i = 0 THEN 0 ELSE SymbolCode(s[i]) + SumCodes(s, i - 1)

\* the text of a string
RECURSIVE Join(_)
Join(s) == IF s = <<>> THEN "" ELSE Head(s) \o Join(Tail(s))

\* the leading Difficulty digits of the digest of s, most significant first
LeadingDigits(s) ==
  LET c == SumCodes(s, Len(s)) % Pow(HexBase, Difficulty)
  IN  [k \in 1..Difficulty |->
         Digits[((c \div Pow(HexBase, Difficulty - k)) % HexBase) + 1]]

\* sha256(message), hex: Difficulty leading digits, then one symbol that
\* stands for the remaining digits and is different for different messages
sha256(message) == LeadingDigits(message) \o <<"<" \o Join(message) \o ">">>

-----------------------------------------------------------------------------
(* Blocks *)

\* index + previousHash + timestamp + JSON.stringify(data), the part of the
\* hash input that is the same for every nonce
HashInputHead(index, previousHash, timestamp, data) ==
  NumToString(index) \o previousHash \o NumToString(timestamp)
  \o JsonStringify(data)

\* index + previousHash + timestamp + JSON.stringify(data) + nonce
HashInput(index, previousHash, timestamp, data, nonce) ==
  HashInputHead(index, previousHash, timestamp, data) \o NumToString(nonce)

\* Array(difficulty + 1).join("0")
ZeroPrefix == [k \in 1..Difficulty |-> "0"]

\* hash.substring(0, difficulty) === Array(difficulty + 1).join("0")
MeetsDifficulty(hash) ==
  SubSeq(hash, 1, IF Difficulty < Len(hash) THEN Difficulty ELSE Len(hash))
    = ZeroPrefix

\* faulty variant of MineFrom: the loop is left at once
MineFromNoSearch(head, nonce) == nonce

\* faulty variant of MineFrom: the search starts one nonce later
RECURSIVE MineFromNext(_, _)
MineFromNext(head, nonce) ==
  IF LeadingDigits(head \o NumToString(nonce + 1)) = ZeroPrefix
    THEN nonce + 1
    ELSE MineFromNext(head, nonce + 1)

\* The while (true) loop of createBlock, entered with the given nonce; head is
\* the input without the nonce.  The first difficulty characters of
\* sha256(input) are LeadingDigits(input).
RECURSIVE MineFrom(_, _)
MineFrom(head, nonce) ==
  IF LeadingDigits(head \o NumToString(nonce)) = ZeroPrefix
    THEN nonce
    ELSE MineFrom(head, nonce + 1)

\* faulty variant of createBlock: index = chain.length + 1
createBlockIndexAhead(ch, data, previousHash, timestamp) ==
  LET index == Len(ch) + 1
      head  == HashInputHead(index, previousHash, timestamp, data)
      nonce == MineFrom(head, 0)
  IN  [ index        |-> index,
        timestamp    |-> timestamp,
        data         |-> data,
        previousHash |-> previousHash,
        hash         |-> sha256(head \o NumToString(nonce)),
        nonce        |-> nonce ]

\* faulty variant of createBlock: Date.now() is read again for the block
createBlockLateTimestamp(ch, data, previousHash, timestamp) ==
  LET index == Len(ch)
      head  == HashInputHead(index, previousHash, timestamp, data)
      nonce == MineFrom(head, 0)
  IN  [ index        |-> index,
        timestamp    |-> timestamp + nonce,
        data         |-> data,
        previousHash |-> previousHash,
        hash         |-> sha256(head \o NumToString(nonce)),
        nonce        |-> nonce ]

\* createBlock(data, previousHash), reading chain.length of ch and
\* Date.now() = timestamp
createBlock(ch, data, previousHash, timestamp) ==
  LET index == Len(ch)
      head  == HashInputHead(index, previousHash, timestamp, data)
      nonce == MineFrom(head, 0)
  IN  [ index        |-> index,
        timestamp    |-> timestamp,
        data         |-> data,
        previousHash |-> previousHash,
        hash         |-> sha256(head \o NumToString(nonce)),
        nonce        |-> nonce ]

GENESIS == <<"G", "E", "N", "E", "S", "I", "S">>

\* chain.push(createBlock({ voterId: "GENESIS", candidateId: "GENESIS" }, "0"))
GenesisChain(timestamp) ==
  << createBlock(<<>>, [voterId |-> GENESIS, candidateId |-> GENESIS],
                 <<"0">>, timestamp) >>

\* faulty variant of isChainValid: the hash is not recomputed
isChainValidLinkOnly(serverChain) ==
  \A i \in 2..Len(serverChain) :
    serverChain[i].previousHash = serverChain[i - 1].hash

\* BlockchainService.isChainValid: the loop returns false at the first
\* block whose link or recomputed hash does not match
isChainValid(serverChain) ==
  \A i \in 2..Len(serverChain) :
    LET currentBlock  == serverChain[i]
        previousBlock == serverChain[i - 1]
    IN  /\ currentBlock.previousHash = previousBlock.hash
        /\ sha256(HashInput(currentBlock.index, currentBlock.previousHash,
                            currentBlock.timestamp, currentBlock.data,
                            currentBlock.nonce)) = currentBlock.hash

-----------------------------------------------------------------------------
(* Requests *)

\* a property the request body does not have
Undefined == <<"undefined">>

\* raw voter identities: "a" and " A " are one voter, "b" another
Emails == { <<"a">>, <<" ", "A", " ">>, <<"b">> }

\* candidate ids: the route takes any string, "GENESIS" included
CandidateIds == { <<"c", "1">>, <<"G", "E", "N", "E", "S", "I", "S">> }

\* bodies of POST /api/vote
VoteBodies ==
  [email : Emails, candidateId : CandidateIds]
  \cup [email : {Undefined}, candidateId : {<<"c", "1">>}]

\* bodies of POST /api/admin/candidate
CandidateBodies ==
  [id : CandidateIds, voteCount : {0, 7}]
  \cup [id : {<<>>, Undefined}, voteCount : {0}]

NoBlock == [index |-> -1]

\* last is the response to the latest request when that was a vote request
NoResponse ==
  [op |-> "none", status |-> 0, error |-> "", block |-> NoBlock, raced |-> FALSE]

PollClosedError == "Voting is closed."
DuplicateVoteError == "You have already voted."
TypeError == "TypeError"

Response(op, status, error, block, raced) ==
  [op |-> op, status |-> status, error |-> error, block |-> block,
   raced |-> raced]

-----------------------------------------------------------------------------
(* State outside the ledger: the server's OTP store and the browser *)

\* new Map(): the store of issued codes, a function from the emails that
\* have a record to their records
NoOtps == [email \in {} |-> [otp |-> <<>>, expires |-> 0]]

\* useState<User | null>(null)
NoUser == [email |-> <<"null">>, role |-> "null"]

\* the state of App when it is mounted
AppInit ==
  [user |-> NoUser, candidates |-> <<>>, chain |-> <<>>, appState |-> "LOGIN",
   votingActive |-> FALSE, hasVoted |-> FALSE, isLoading |-> TRUE]

\* the state of Login when it is mounted
LoginInit ==
  [email |-> <<>>, step |-> "EMAIL", otp |-> <<>>, error |-> "",
   isLoading |-> FALSE]

-----------------------------------------------------------------------------
(* POST /api/vote *)

\* faulty variant of VoterHash: the email is hashed as it was typed
VoterHashRaw(email) == sha256(email)

\* faulty variant of VoterHash: the normalized email is stored unhashed
VoterHashUnhashed(email) == Trim(ToLowerCase(email))

\* sha256(email.toLowerCase().trim())
VoterHash(email) == sha256(Trim(ToLowerCase(email)))

\* faulty variant of hasVoted: chain.some, the genesis block included
hasVotedWithGenesis(ch, voterHash) ==
  \E i \in 1..Len(ch) : ch[i].data.voterId = voterHash

\* faulty variant of hasVoted: chain.slice(2)
hasVotedSkipFirst(ch, voterHash) ==
  \E i \in 3..Len(ch) : ch[i].data.voterId = voterHash

\* faulty variant of hasVoted: only the last block is looked at
hasVotedTailOnly(ch, voterHash) ==
  Len(ch) >= 2 /\ ch[Len(ch)].data.voterId = voterHash

\* chain.slice(1).some(block => block.data.voterId === voterHash)
hasVoted(ch, voterHash) ==
  \E i \in 2..Len(ch) : ch[i].data.voterId = voterHash

\* faulty variant of PreviousBlock: chain[0]
PreviousBlockFirst(ch) == ch[1]

\* chain[chain.length - 1]
PreviousBlock(ch) == ch[Len(ch)]

\* faulty variant of Push: chain[chain.length - 1] = newBlock
PushOverTail(ch, newBlock) == [ch EXCEPT ![Len(ch)] = newBlock]

\* chain.push(newBlock)
Push(ch, newBlock) == Append(ch, newBlock)

\* faulty variant of CountVote: only the first candidate with that id is counted
CountVoteFirstMatch(cands, candidateId) ==
  LET I == {i \in 1..Len(cands) : cands[i].id = candidateId} IN
  [i \in 1..Len(cands) |->
     IF I # {} /\ i = (CHOOSE m \in I : \A k \in I : m <= k)
       THEN [cands[i] EXCEPT !.voteCount = @ + 1]
       ELSE cands[i]]

\* faulty variant of CountVote: no counter is changed
CountVoteNone(cands, candidateId) == cands

\* candidates.map(c => c.id === candidateId ? {...c, voteCount: c.voteCount + 1} : c)
CountVote(cands, candidateId) ==
  [i \in 1..Len(cands) |->
     IF cands[i].id = candidateId
       THEN [cands[i] EXCEPT !.voteCount = @ + 1]
       ELSE cands[i]]

\* faulty variant of PostVote: the duplicate check comes before the poll check
PostVoteDuplicateFirst(ch, cands, active, body, t1, t2) ==
  IF body.email = Undefined
    THEN [status |-> 500, error |-> TypeError, block |-> NoBlock,
          chain |-> ch, candidates |-> cands, clock |-> {}]
  ELSE
    LET voterHash == VoterHash(body.email) IN
    IF hasVoted(ch, voterHash)
      THEN [status |-> 400, error |-> DuplicateVoteError, block |-> NoBlock,
            chain |-> ch, candidates |-> cands, clock |-> {}]
    ELSE IF ~active
      THEN [status |-> 400, error |-> PollClosedError, block |-> NoBlock,
            chain |-> ch, candidates |-> cands, clock |-> {}]
      ELSE
        LET previousBlock == PreviousBlock(ch)
            newBlock == createBlock(ch,
                          [voterId |-> voterHash,
                           candidateId |-> body.candidateId,
                           timestamp |-> t1],
                          previousBlock.hash, t2)
        IN  [status |-> 200, error |-> "", block |-> newBlock,
             chain |-> Push(ch, newBlock),
             candidates |-> CountVote(cands, body.candidateId),
             clock |-> {t2}]

\* faulty variant of PostVote: the vote is counted before the duplicate check
PostVoteCountFirst(ch, cands, active, body, t1, t2) ==
  IF ~active
    THEN [status |-> 400, error |-> PollClosedError, block |-> NoBlock,
          chain |-> ch, candidates |-> cands, clock |-> {}]
  ELSE IF body.email = Undefined
    THEN [status |-> 500, error |-> TypeError, block |-> NoBlock,
          chain |-> ch, candidates |-> cands, clock |-> {}]
  ELSE
    LET voterHash == VoterHash(body.email)
        counted == CountVote(cands, body.candidateId) IN
    IF hasVoted(ch, voterHash)
      THEN [status |-> 400, error |-> DuplicateVoteError, block |-> NoBlock,
            chain |-> ch, candidates |-> counted, clock |-> {}]
      ELSE
        LET previousBlock == PreviousBlock(ch)
            newBlock == createBlock(ch,
                          [voterId |-> voterHash,
                           candidateId |-> body.candidateId,
                           timestamp |-> t1],
                          previousBlock.hash, t2)
        IN  [status |-> 200, error |-> "", block |-> newBlock,
             chain |-> Push(ch, newBlock),
             candidates |-> counted,
             clock |-> {t2}]

\* faulty variant of PostVote: the voter's digest is computed first
PostVoteHashFirst(ch, cands, active, body, t1, t2) ==
  IF body.email = Undefined
    THEN [status |-> 500, error |-> TypeError, block |-> NoBlock,
          chain |-> ch, candidates |-> cands, clock |-> {}]
  ELSE IF ~active
    THEN [status |-> 400, error |-> PollClosedError, block |-> NoBlock,
          chain |-> ch, candidates |-> cands, clock |-> {}]
  ELSE
    LET voterHash == VoterHash(body.email) IN
    IF hasVoted(ch, voterHash)
      THEN [status |-> 400, error |-> DuplicateVoteError, block |-> NoBlock,
            chain |-> ch, candidates |-> cands, clock |-> {}]
      ELSE
        LET previousBlock == PreviousBlock(ch)
            newBlock == createBlock(ch,
                          [voterId |-> voterHash,
                           candidateId |-> body.candidateId,
                           timestamp |-> t1],
                          previousBlock.hash, t2)
        IN  [status |-> 200, error |-> "", block |-> newBlock,
             chain |-> Push(ch, newBlock),
             candidates |-> CountVote(cands, body.candidateId),
             clock |-> {t2}]

\* The handler, as a function of the state it reads, the request body and
\* the two values Date.now() returns (t1 for data.timestamp, t2 in
\* createBlock).  The result holds the response and the state it leaves.
PostVote(ch, cands, active, body, t1, t2) ==
  IF ~active
    THEN [status |-> 400, error |-> PollClosedError, block |-> NoBlock,
          chain |-> ch, candidates |-> cands, clock |-> {}]
  ELSE IF body.email = Undefined
    THEN [status |-> 500, error |-> TypeError, block |-> NoBlock,
          chain |-> ch, candidates |-> cands, clock |-> {}]
  ELSE
    LET voterHash == VoterHash(body.email) IN
    IF hasVoted(ch, voterHash)
      THEN [status |-> 400, error |-> DuplicateVoteError, block |-> NoBlock,
            chain |-> ch, candidates |-> cands, clock |-> {}]
      ELSE
        LET previousBlock == PreviousBlock(ch)
            newBlock == createBlock(ch,
                          [voterId |-> voterHash,
                           candidateId |-> body.candidateId,
                           timestamp |-> t1],
                          previousBlock.hash, t2)
        IN  [status |-> 200, error |-> "", block |-> newBlock,
             chain |-> Push(ch, newBlock),
             candidates |-> CountVote(cands, body.candidateId),
             clock |-> {t2}]

\* one run of the handler on body with Date.now() returning t1 and then t2;
\* others are the requests still in flight
HandleVoteAt(body, others, t1, t2) ==
  LET out == PostVote(chain, candidates, votingActive, body, t1, t2) IN
  /\ chain' = out.chain
  /\ candidates' = out.candidates
  /\ now' = IF out.clock = {} THEN now ELSE t2
  /\ last' = Response("vote", out.status, out.error, out.block,
                      \E r \in others : /\ r.email # Undefined
                                        /\ body.email # Undefined
                                        /\ VoterHash(r.email) = VoterHash(body.email))
  /\ UNCHANGED votingActive
  /\ UNCHANGED <<otpStore, login>>

\* The values the handler's two Date.now() calls can return: a rejected
\* request reads no clock.
ClockReads(body) ==
  IF PostVote(chain, candidates, votingActive, body, now, now).status # 200
    THEN {<<now, now>>}
    ELSE {t \in (now..MaxTime) \X (now..MaxTime) : t[1] <= t[2]}

\* one run of the handler on body
HandleVote(body, others) ==
  \E t \in ClockReads(body) : HandleVoteAt(body, others, t[1], t[2])

\* a vote request handled as it arrives
CastVote ==
  \E body \in VoteBodies :
    /\ inflight = {}
    /\ HandleVote(body, {})
    /\ UNCHANGED inflight
    /\ UNCHANGED <<otpStore, app, login>>

-----------------------------------------------------------------------------
(* Admin routes *)

\* faulty variant of PostToggle: the response is written before the flip
PostToggleOldValue(active) ==
  [votingActive |-> ~active,
   response |-> [success |-> TRUE, votingActive |-> active]]

\* votingActive = !votingActive; res.json({ success: true, votingActive })
PostToggle(active) ==
  [votingActive |-> ~active,
   response |-> [success |-> TRUE, votingActive |-> ~active]]

\* POST /api/admin/toggle
Toggle ==
  /\ votingActive' = PostToggle(votingActive).votingActive
  /\ last' = NoResponse
  /\ UNCHANGED <<chain, candidates, now, inflight>>
  /\ UNCHANGED <<otpStore, app, login>>

\* !candidate || !candidate.id
InvalidCandidate(body) == body.id = Undefined \/ body.id = <<>>

InvalidCandidateError == "Invalid candidate data"

\* faulty variant of PostCandidate: the request's voteCount is stored
PostCandidateKeepCount(cands, body) ==
  IF InvalidCandidate(body)
    THEN [candidates |-> cands, status |-> 400,
          error |-> InvalidCandidateError]
    ELSE [candidates |-> Append(cands, body), status |-> 200, error |-> ""]

\* the handler of POST /api/admin/candidate as a function of the registry
\* and the request: candidates.push({ ...candidate, voteCount: 0 })
PostCandidate(cands, body) ==
  IF InvalidCandidate(body)
    THEN [candidates |-> cands, status |-> 400,
          error |-> InvalidCandidateError]
    ELSE [candidates |-> Append(cands, [body EXCEPT !.voteCount = 0]),
          status |-> 200, error |-> ""]

\* POST /api/admin/candidate with body as the request
AddCandidateOf(body) ==
  /\ Len(PostCandidate(candidates, body).candidates) <= MaxCands
  /\ candidates' = PostCandidate(candidates, body).candidates
  /\ last' = NoResponse
  /\ UNCHANGED <<chain, votingActive, now, inflight>>
  /\ UNCHANGED <<otpStore, app, login>>

\* POST /api/admin/candidate
AddCandidate == \E body \in CandidateBodies : AddCandidateOf(body)

\* faulty variant of FilterOut: the registry is emptied
FilterOutAll(cands, id) == <<>>

\* candidates.filter(c => c.id !== id)
RECURSIVE FilterOut(_, _)
FilterOut(cands, id) ==
  IF cands = <<>> THEN <<>>
  ELSE (IF Head(cands).id # id THEN <<Head(cands)>> ELSE <<>>)
       \o FilterOut(Tail(cands), id)

\* DELETE /api/admin/candidate/:id
RemoveCandidate ==
  \E id \in CandidateIds :
    /\ candidates' = FilterOut(candidates, id)
    /\ last' = NoResponse
    /\ UNCHANGED <<chain, votingActive, now, inflight>>
    /\ UNCHANGED <<otpStore, app, login>>

-----------------------------------------------------------------------------
(* GET /api/state *)

\* faulty variant of StateJson: the chain is sent without its last block
StateJsonWithoutTail(cands, ch, active) ==
  [candidates |-> cands, chain |-> SubSeq(ch, 1, Len(ch) - 1),
   votingActive |-> active]

\* res.json({ candidates, chain, votingActive })
StateJson(cands, ch, active) ==
  [candidates |-> cands, chain |-> ch, votingActive |-> active]

\* GET /api/state: last becomes the response, with the state in its body
GetState ==
  /\ last' = [op |-> "state", status |-> 200, error |-> "", block |-> NoBlock,
              raced |-> FALSE,
              body |-> StateJson(candidates, chain, votingActive)]
  /\ UNCHANGED <<chain, candidates, votingActive, now, inflight>>
  /\ UNCHANGED <<otpStore, app, login>>

-----------------------------------------------------------------------------
(* Vote requests in flight *)

\* a client sends a vote request
SubmitVote ==
  \E body \in VoteBodies :
    /\ body \notin inflight
    /\ Cardinality(inflight) < MaxInflight
    /\ inflight' = inflight \cup {body}
    /\ UNCHANGED <<chain, candidates, votingActive, now, last>>
    /\ UNCHANGED <<otpStore, app, login>>

\* the event loop runs the handler on one of the requests in flight
DeliverVote ==
  \E body \in inflight :
    /\ HandleVote(body, inflight \ {body})
    /\ inflight' = inflight \ {body}
    /\ UNCHANGED <<otpStore, app, login>>

-----------------------------------------------------------------------------
(* Specifications *)

\* let chain = [...genesis]; let candidates = []; let votingActive = false
Init ==
  /\ now = 0
  /\ chain = GenesisChain(0)
  /\ candidates = <<>>
  /\ votingActive = FALSE
  /\ inflight = {}
  /\ last = NoResponse
  /\ otpStore = NoOtps
  /\ app = AppInit
  /\ login = LoginInit

\* the server, each request handled as it arrives
Next == CastVote \/ Toggle \/ AddCandidate \/ RemoveCandidate

Spec == Init /\ [][Next]_vars

\* the server with vote requests waiting for the event loop
NextInflight == SubmitVote \/ DeliverVote \/ Toggle

SpecInflight == Init /\ [][NextInflight]_vars

\* registries the admin can have set up before the first vote: every
\* counter 0, the chain still the genesis block alone
FreshRegistries ==
  UNION { [1..n -> [id : CandidateIds, voteCount : {0}]] : n \in 0..MaxCands }

InitFixedRegistry ==
  /\ now = 0
  /\ chain = GenesisChain(0)
  /\ candidates \in FreshRegistries
  /\ votingActive \in BOOLEAN
  /\ inflight = {}
  /\ last = NoResponse
  /\ otpStore = NoOtps
  /\ app = AppInit
  /\ login = LoginInit

\* votes cast against a registry that no longer changes
NextFixedRegistry == CastVote \/ Toggle

SpecFixedRegistry == InitFixedRegistry /\ [][NextFixedRegistry]_vars

\* state queries handled between the votes cast against a fixed registry
NextStateQuery == CastVote \/ Toggle \/ GetState

SpecStateQuery == InitFixedRegistry /\ [][NextStateQuery]_vars

-----------------------------------------------------------------------------
(* BlockchainService: the ledger the client-simulated App keeps in the      *)
(* browser.  Its methods are async: a call runs up to an await, is          *)
(* suspended there while other calls run, and goes on later.  inflight      *)
(* holds the suspended calls with the values they have read so far.         *)

\* a suspended call of the service
Pending(op, stage, voterEmail, candidateId, previousBlock, block) ==
  [op |-> op, stage |-> stage, voterEmail |-> voterEmail,
   candidateId |-> candidateId, previousBlock |-> previousBlock,
   block |-> block]

\* calls are taken while the blocks they can still push fit the bound
ClientRoom ==
  /\ Cardinality(inflight) < MaxInflight
  /\ Len(chain) + Cardinality(inflight) < MaxClientChain

\* createGenesisBlock() up to the first await of createBlock's loop: the
\* payload's Date.now(), chain.length and createBlock's Date.now() are read;
\* the nonce the loop ends with is a function of these
CreateGenesisBlockCall ==
  \E t1 \in now..MaxTime : \E t2 \in t1..MaxTime :
    LET genesisBlock ==
          createBlock(chain,
                      [voterId |-> GENESIS, candidateId |-> GENESIS,
                       timestamp |-> t1],
                      <<"0">>, t2)
        call == Pending("createGenesisBlock", "mined", <<>>, <<>>, NoBlock,
                        genesisBlock)
    IN  /\ ClientRoom
        /\ call \notin inflight
        /\ inflight' = inflight \cup {call}
        /\ now' = t2
        /\ UNCHANGED <<chain, candidates, votingActive, last>>
        /\ UNCHANGED <<otpStore, app, login>>

\* createGenesisBlock() after the await: this.chain.push(genesisBlock)
CreateGenesisBlockPush ==
  \E call \in inflight :
    /\ call.op = "createGenesisBlock"
    /\ chain' = Push(chain, call.block)
    /\ inflight' = inflight \ {call}
    /\ UNCHANGED <<candidates, votingActive, now, last>>
    /\ UNCHANGED <<otpStore, app, login>>

\* the tail addVote reads: this.chain[this.chain.length - 1], undefined
\* when the chain is empty
ClientPreviousBlock(ch) == IF ch = <<>> THEN NoBlock ELSE PreviousBlock(ch)

\* voter identities and candidate ids addVote is called with
AddVoteCalls == [voterEmail : Emails, candidateId : {<<"c", "1">>}]

\* addVote(voterEmail, candidateId) up to await sha256(voterEmail): the tail
\* of the chain is read
AddVoteCall ==
  \E args \in AddVoteCalls :
    LET call == Pending("addVote", "hashing", args.voterEmail,
                        args.candidateId, ClientPreviousBlock(chain), NoBlock)
    IN  /\ ClientRoom
        /\ call \notin inflight
        /\ inflight' = inflight \cup {call}
        /\ UNCHANGED <<chain, candidates, votingActive, now, last>>
        /\ UNCHANGED <<otpStore, app, login>>

\* sha256(voterEmail), the email as it was passed
ClientVoterHash(voterEmail) == sha256(voterEmail)

\* addVote from the end of await sha256(voterEmail) to the first await of
\* createBlock's loop: previousBlock.hash throws when previousBlock is
\* undefined and the call ends; otherwise Date.now(), chain.length and
\* Date.now() are read
AddVoteMine ==
  \E call \in inflight :
    /\ call.op = "addVote" /\ call.stage = "hashing"
    /\ IF call.previousBlock = NoBlock
         THEN /\ inflight' = inflight \ {call}
              /\ UNCHANGED now
         ELSE \E t1 \in now..MaxTime : \E t2 \in t1..MaxTime :
                LET newBlock ==
                      createBlock(chain,
                                  [voterId |-> ClientVoterHash(call.voterEmail),
                                   candidateId |-> call.candidateId,
                                   timestamp |-> t1],
                                  call.previousBlock.hash, t2)
                    mined == [call EXCEPT !.stage = "mined", !.block = newBlock]
                IN  /\ inflight' = (inflight \ {call}) \cup {mined}
                    /\ now' = t2
    /\ UNCHANGED <<chain, candidates, votingActive, last>>
    /\ UNCHANGED <<otpStore, app, login>>

\* addVote after createBlock's await: this.chain.push(newBlock)
AddVotePush ==
  \E call \in inflight :
    /\ call.op = "addVote" /\ call.stage = "mined"
    /\ chain' = Push(chain, call.block)
    /\ inflight' = inflight \ {call}
    /\ UNCHANGED <<candidates, votingActive, now, last>>
    /\ UNCHANGED <<otpStore, app, login>>

\* constructor: this.chain = []
InitClient ==
  /\ now = 0
  /\ chain = <<>>
  /\ candidates = <<>>
  /\ votingActive = FALSE
  /\ inflight = {}
  /\ last = NoResponse
  /\ otpStore = NoOtps
  /\ app = AppInit
  /\ login = LoginInit

NextClient ==
  \/ CreateGenesisBlockCall
  \/ CreateGenesisBlockPush
  \/ AddVoteCall
  \/ AddVoteMine
  \/ AddVotePush

SpecClient == InitClient /\ [][NextClient]_vars

-----------------------------------------------------------------------------
(* Properties *)

\* the block at the tail of the chain
TailOf(ch) == ch[Len(ch)]

\* before is a prefix of after
IsPrefix(before, after) ==
  /\ Len(before) <= Len(after)
  /\ SubSeq(after, 1, Len(before)) = before

\* anonymize(rawIdentity): H of the lower-cased, trimmed identity
Anonymize(rawIdentity) == sha256(Trim(ToLowerCase(rawIdentity)))

\* the digest of this raw identity is in chain[1:]
DigestPresent(ch, rawIdentity) ==
  \E i \in 2..Len(ch) : ch[i].data.voterId = Anonymize(rawIdentity)

\* tallies(chain, candidates)[id]: the blocks of chain[1:] cast for id
Tally(ch, id) == Cardinality({j \in 2..Len(ch) : ch[j].data.candidateId = id})

\* this step is the handler of POST /api/vote run on body
VoteStep(body) ==
  /\ last'.op = "vote"
  /\ \E t1 \in now..now' : HandleVoteAt(body, {}, t1, now')

\* C1: in every reachable state of the server every block after the genesis
\* block carries its predecessor's hash and a hash that is H of its own
\* stored fields, so isChainValid returns true.
C1_ChainValid ==
  /\ \A i \in 2..Len(chain) :
       /\ chain[i].previousHash = chain[i - 1].hash
       /\ chain[i].hash = sha256(HashInput(chain[i].index, chain[i].previousHash,
                                           chain[i].timestamp, chain[i].data,
                                           chain[i].nonce))
  /\ isChainValid(chain)

\* two votes appended, the last request a successful vote
C1_Witness ==
  Len(chain) = 3 /\ last.op = "vote" /\ last.status = 200

\* C2: with vote requests waiting in flight and handled in any order, no two
\* blocks of chain[1:] carry the same voterId.
C2_NoDoubleVote ==
  \A i \in 2..Len(chain) : \A j \in 2..Len(chain) :
    i # j => chain[i].data.voterId # chain[j].data.voterId

\* a vote was appended while another request of the same voter was in
\* flight, and that request is still waiting
C2_Witness ==
  /\ last.op = "vote" /\ last.status = 200 /\ last.raced
  /\ \E r \in inflight :
       r.email # Undefined /\ Anonymize(r.email) = last.block.data.voterId

\* C3, as stated: a vote request of a voter whose digest is in chain[1:] is
\* always answered "You have already voted.".
C3_AlwaysDuplicateError ==
  [][\A body \in VoteBodies :
       (body.email # Undefined /\ DigestPresent(chain, body.email) /\ VoteStep(body))
         => last'.error = DuplicateVoteError]_vars

\* C3, amended: a vote request of a voter whose digest is in chain[1:]
\* always fails and appends nothing, with "You have already voted." while
\* polling is open and with "Voting is closed." while it is closed.
C3_AlwaysRejected ==
  [][\A body \in VoteBodies :
       (body.email # Undefined /\ DigestPresent(chain, body.email) /\ VoteStep(body))
         => /\ last'.status = 400
            /\ last'.error = IF votingActive THEN DuplicateVoteError
                                              ELSE PollClosedError
            /\ chain' = chain]_vars

\* a second vote of a voter was answered "You have already voted."
C3_Witness ==
  /\ last.op = "vote" /\ last.error = DuplicateVoteError
  /\ votingActive /\ Len(chain) >= 2

\* values a field of a block can be changed to
TamperNumbers == 0..(MaxTime + 2)

TamperHashes(ch) ==
  {ch[i].hash : i \in 1..Len(ch)} \cup {ch[i].data.voterId : i \in 2..Len(ch)}
  \cup {<<"0">>, <<>>, sha256(<<"0">>), ZeroPrefix \o <<"<>">>}

TamperVoterIds(ch) ==
  {Anonymize(e) : e \in Emails} \cup Emails \cup {GENESIS, <<>>}

TamperCandidateIds ==
  CandidateIds \cup {GENESIS, <<>>, <<"c">>, <<"c", "1", "\"">>, <<"1">>}

\* the blocks that differ from b in the value of exactly one field
Tampered(ch, b) ==
     {[b EXCEPT !.index = v] : v \in TamperNumbers \ {b.index}}
  \cup {[b EXCEPT !.timestamp = v] : v \in TamperNumbers \ {b.timestamp}}
  \cup {[b EXCEPT !.nonce = v] : v \in (0..Pow(HexBase, Difficulty)) \ {b.nonce}}
  \cup {[b EXCEPT !.previousHash = v] : v \in TamperHashes(ch) \ {b.previousHash}}
  \cup {[b EXCEPT !.hash = v] : v \in TamperHashes(ch) \ {b.hash}}
  \cup {[b EXCEPT !.data.voterId = v] : v \in TamperVoterIds(ch) \ {b.data.voterId}}
  \cup {[b EXCEPT !.data.candidateId = v] :
          v \in TamperCandidateIds \ {b.data.candidateId}}
  \cup {[b EXCEPT !.data.timestamp = v] : v \in TamperNumbers \ {b.data.timestamp}}

\* C4: whatever single field of whatever non-genesis block of the server's
\* chain is given another value, isChainValid returns false for the result.
C4_TamperDetected ==
  \A i \in 2..Len(chain) : \A b \in Tampered(chain, chain[i]) :
    ~isChainValid([chain EXCEPT ![i] = b])

\* a chain of two votes whose first vote, given to the other candidate,
\* still links to its neighbours and is refused all the same
C4_Witness ==
  /\ Len(chain) = 3
  /\ \E c \in CandidateIds :
       LET tampered == [chain EXCEPT ![2].data.candidateId = c] IN
       /\ c # chain[2].data.candidateId
       /\ tampered[2].previousHash = tampered[1].hash
       /\ tampered[3].previousHash = tampered[2].hash
       /\ ~isChainValid(tampered)

\* C5, as stated: every registered candidate's voteCount is the number of
\* blocks of chain[1:] cast for its id.
C5_CountersMatchChain ==
  \A i \in 1..Len(candidates) :
    candidates[i].voteCount = Tally(chain, candidates[i].id)

\* C6: from a registry with every counter 0 and the genesis block alone,
\* after any sequence of votes every candidate's voteCount is the tally
\* obtained by replaying chain[1:].
C6_TallyRoundTrip ==
  \A i \in 1..Len(candidates) :
    candidates[i].voteCount = Tally(chain, candidates[i].id)

\* two votes were cast, one of them counted for two entries of the registry
C6_Witness ==
  /\ Len(chain) = 3
  /\ Len(candidates) = 2
  /\ candidates[1].id = candidates[2].id
  /\ candidates[1].voteCount >= 1

\* C7: a vote request handled while polling is closed is answered
\* "Voting is closed." and appends no block, whoever votes for whomever.
C7_ClosedPollRejects ==
  [][\A body \in VoteBodies :
       (~votingActive /\ VoteStep(body))
         => /\ last'.status = 400
            /\ last'.error = PollClosedError
            /\ last'.block = NoBlock
            /\ chain' = chain]_vars

\* a vote was refused because polling was closed, after another had been cast
C7_Witness ==
  /\ last.op = "vote" /\ last.error = PollClosedError
  /\ ~votingActive /\ Len(chain) >= 2

\* C8: a vote request refused because polling is closed or because the
\* voter has voted leaves chain, candidates and votingActive as they were.
C8_RejectionChangesNothing ==
  [][(last'.op = "vote" /\ last'.error \in {PollClosedError, DuplicateVoteError}
        /\ \E body \in VoteBodies : VoteStep(body))
       => UNCHANGED <<chain, candidates, votingActive>>]_vars

\* a duplicate vote was refused with a counted candidate in the registry
C8_Witness ==
  /\ last.op = "vote" /\ last.error = DuplicateVoteError
  /\ \E i \in 1..Len(candidates) : candidates[i].voteCount >= 1

\* C9: a successful vote appends exactly one block: its index is the old
\* chain length, its previousHash the old tail's hash, its data the voter's
\* digest and the requested candidateId; the response carries that block,
\* every candidate with that id gains one vote and no other entry changes.
C9_SuccessfulVote ==
  [][\A body \in VoteBodies :
       (last'.status = 200 /\ VoteStep(body))
         => /\ Len(chain') = Len(chain) + 1
            /\ SubSeq(chain', 1, Len(chain)) = chain
            /\ TailOf(chain').index = Len(chain)
            /\ TailOf(chain').previousHash = TailOf(chain).hash
            /\ TailOf(chain').data.voterId = Anonymize(body.email)
            /\ TailOf(chain').data.candidateId = body.candidateId
            /\ last'.block = TailOf(chain')
            /\ Len(candidates') = Len(candidates)
            /\ \A i \in 1..Len(candidates) :
                 candidates'[i] =
                   IF candidates[i].id = body.candidateId
                     THEN [candidates[i] EXCEPT !.voteCount = @ + 1]
                     ELSE candidates[i]]_vars

\* a second vote was cast with two different candidates registered, one of
\* them with the vote and the other without any
C9_Witness ==
  /\ last.op = "vote" /\ last.status = 200 /\ Len(chain) = 3
  /\ last.block.data.voterId \in {Anonymize(<<" ", "A", " ">>)}
  /\ \E i \in 1..Len(candidates) : \E j \in 1..Len(candidates) :
       /\ candidates[i].id = last.block.data.candidateId
       /\ candidates[i].voteCount = 1
       /\ candidates[j].id # candidates[i].id
       /\ candidates[j].voteCount = 0

\* C10: across every step the chain before is a prefix of the chain after.
C10_AppendOnly == [][IsPrefix(chain, chain')]_vars

\* the chain has grown twice
C10_Witness == Len(chain) = 3 /\ chain[3].index = 2

\* C11: in every reachable state every block of the chain, the genesis block
\* included, has a hash that is H of its stored fields and begins with
\* difficulty zero characters.
C11_ProofOfWork ==
  \A i \in 1..Len(chain) :
    /\ chain[i].hash = sha256(HashInput(chain[i].index, chain[i].previousHash,
                                        chain[i].timestamp, chain[i].data,
                                        chain[i].nonce))
    /\ Len(chain[i].hash) >= Difficulty
    /\ \A k \in 1..Difficulty : chain[i].hash[k] = "0"

\* two votes were mined, one of them after a search over several nonces
C11_Witness ==
  /\ Len(chain) = 3
  /\ \E i \in 2..3 : chain[i].nonce >= 2

\* C12: in every reachable state chain[0] carries voterId "GENESIS",
\* candidateId "GENESIS" and previousHash "0"; no candidate, one with the id
\* "GENESIS" included, has more votes than chain[1:] holds blocks for its id,
\* and the duplicate check does not find the genesis block's voterId.
C12_GenesisNeverCounted ==
  /\ chain[1].data.voterId = GENESIS
  /\ chain[1].data.candidateId = GENESIS
  /\ chain[1].previousHash = <<"0">>
  /\ \A i \in 1..Len(candidates) :
       candidates[i].voteCount <= Tally(chain, candidates[i].id)
  /\ ~hasVoted(chain, chain[1].data.voterId)

\* a candidate with the id "GENESIS" holds exactly the one vote cast for it
C12_Witness ==
  /\ Len(chain) = 3
  /\ \E i \in 1..Len(candidates) :
       /\ candidates[i].id = GENESIS
       /\ candidates[i].voteCount = 1
       /\ Tally(chain, GENESIS) = 1

\* C13, as stated: the ledger never holds a block with previousHash "0" at a
\* position other than 0, however often createGenesisBlock is called.
C13_SingleGenesis ==
  \A i \in 2..Len(chain) : chain[i].previousHash # <<"0">>

\* a candidate with this id is in the registry
Registered(cands, id) == \E i \in 1..Len(cands) : cands[i].id = id

\* C14, as stated: a vote request whose candidateId is the id of no
\* registered candidate is refused and appends no block.
C14_UnknownCandidateRejected ==
  [][\A body \in VoteBodies :
       (~Registered(candidates, body.candidateId) /\ VoteStep(body))
         => (last'.status # 200 /\ chain' = chain)]_vars

\* C15, as stated: while polling is open no step makes the registry longer.
C15_NoAddWhileOpen ==
  [][votingActive => Len(candidates') <= Len(candidates)]_vars

\* the vote blocks of a ledger: the blocks after the first that do not carry
\* the genesis payload
VoteBlocks(ch) == {i \in 2..Len(ch) : ch[i].data.voterId # GENESIS}

\* C16, as stated: every vote block's voterId is the digest of a normalized
\* identity, and no two vote blocks were cast under two spellings of one
\* identity (two raw identities with the same normalized form); here for
\* the ledger kept in the browser.
C16_NormalizedIdentity ==
  /\ \A i \in VoteBlocks(chain) :
       chain[i].data.voterId \in {Anonymize(e) : e \in Emails}
  /\ \A i \in VoteBlocks(chain) : \A j \in VoteBlocks(chain) :
       \A e1 \in Emails : \A e2 \in Emails :
         (i # j /\ e1 # e2 /\ Anonymize(e1) = Anonymize(e2))
           => ~(/\ chain[i].data.voterId \in {sha256(e1), Anonymize(e1)}
                /\ chain[j].data.voterId \in {sha256(e2), Anonymize(e2)})

\* the string e occurs in the string s
Contains(s, e) ==
  \E k \in 0..(Len(s) - Len(e)) : SubSeq(s, k + 1, k + Len(e)) = e

\* no field of the block holds the raw email e
BlockHides(b, e) ==
  /\ ~Contains(b.previousHash, e)
  /\ ~Contains(b.hash, e)
  /\ ~Contains(b.data.voterId, e)
  /\ ~Contains(b.data.candidateId, e)

\* the raw emails of the voters whose digests are in chain[1:]
Voters(ch) == {e \in Emails : DigestPresent(ch, e)}

KeepOthers(cands, id) == SelectSeq(cands, LAMBDA c : c.id # id)

\* C18: a step of addCandidate or removeCandidate, accepted or refused,
\* leaves the chain and the polling flag as they were; the registry stays
\* as it was, gains one entry at its end, or loses the entries of one id
\* and keeps every other entry unchanged.
C18_AdminChangesRegistryOnly ==
  [][(last'.op = "none" /\ votingActive' = votingActive)
       => /\ chain' = chain
          /\ \/ candidates' = candidates
             \/ /\ Len(candidates') = Len(candidates) + 1
                /\ SubSeq(candidates', 1, Len(candidates)) = candidates
             \/ \E i \in 1..Len(candidates) :
                  candidates' = KeepOthers(candidates, candidates[i].id)]_vars

\* a counted candidate was removed and another is still there with its vote
C18_Witness ==
  /\ last.op = "none"
  /\ Len(chain) = 3
  /\ Len(candidates) = 1
  /\ candidates[1].voteCount = 1
  /\ \E id \in CandidateIds :
       id # candidates[1].id /\ Tally(chain, id) = 1

\* C19: the polling flag starts false; a toggle step sets it to its
\* negation, answers with the new value and leaves the chain and the
\* registry as they were, so that a second toggle gives back the flag, and
\* with it the whole state, of before the first.
C19_ToggleFlips ==
  /\ votingActive = FALSE
  /\ [][votingActive' # votingActive
          => /\ votingActive' = ~votingActive
             /\ PostToggle(votingActive).response.votingActive = votingActive'
             /\ PostToggle(votingActive').votingActive = votingActive
             /\ UNCHANGED <<chain, candidates>>]_vars

\* polling was opened, a vote was cast, polling was closed again
C19_Witness ==
  /\ ~votingActive
  /\ last.op = "none"
  /\ Len(chain) = 2
  /\ Len(candidates) = 1 /\ candidates[1].voteCount = 1

\* C20: every state-query response holds the whole state of the moment it
\* was handled, between two vote requests: its chain, registry and flag are
\* the server's, every block of its chain is complete, and with a fixed
\* registry every counter it shows is the number of blocks it shows for
\* that candidate.
C20_StateQueryAtomic ==
  [][last'.op = "state"
       => /\ last'.body.chain = chain /\ chain' = chain
          /\ last'.body.candidates = candidates /\ candidates' = candidates
          /\ last'.body.votingActive = votingActive
          /\ votingActive' = votingActive
          /\ \A i \in 1..Len(last'.body.chain) :
               /\ DOMAIN last'.body.chain[i] =
                    {"index", "timestamp", "data", "previousHash", "hash", "nonce"}
               /\ last'.body.chain[i].index = i - 1
          /\ \A i \in 1..Len(last'.body.candidates) :
               last'.body.candidates[i].voteCount =
                 Tally(last'.body.chain, last'.body.candidates[i].id)]_vars

\* the state was queried after a vote that two entries of the registry count
C20_Witness ==
  /\ last.op = "state"
  /\ Len(last.body.chain) >= 2
  /\ Len(last.body.candidates) = 2
  /\ last.body.candidates[1].voteCount = 1
  /\ last.body.candidates[2].voteCount = 1

\* the voters and the candidate of the reference scenario
alice == <<"a">>
bob == <<"b">>
c1 == <<"c", "1">>

\* the scenario's state after alice's vote: polling open, c1 alone in the
\* registry with one vote, alice's block alone after the genesis block
AliceHasVoted ==
  /\ Len(chain) = 2
  /\ chain[2].data.voterId = Anonymize(alice)
  /\ chain[2].data.candidateId = c1
  /\ candidates = <<[id |-> c1, voteCount |-> 1]>>

\* C21: the chain starts with length 1; with c1 registered and polling open a
\* vote by alice for c1 makes the length 2 and c1's tally 1; a second vote by
\* alice then fails with "You have already voted." and, once polling is
\* closed, a vote by bob fails with "Voting is closed.", the length staying 2.
C21_ReferenceScenario ==
  /\ Len(chain) = 1
  /\ [][\A body \in VoteBodies :
          VoteStep(body) =>
            /\ (/\ Len(chain) = 1 /\ votingActive
                /\ candidates = <<[id |-> c1, voteCount |-> 0]>>
                /\ body.email = alice /\ body.candidateId = c1)
                 => (/\ last'.status = 200
                     /\ Len(chain') = 2
                     /\ candidates'[1].voteCount = 1
                     /\ Tally(chain', c1) = 1
                     /\ AliceHasVoted')
            /\ (AliceHasVoted /\ votingActive /\ body.email = alice)
                 => (/\ last'.error = DuplicateVoteError
                     /\ Len(chain') = 2
                     /\ AliceHasVoted')
            /\ (AliceHasVoted /\ ~votingActive /\ body.email = bob)
                 => (/\ last'.error = PollClosedError
                     /\ Len(chain') = 2
                     /\ AliceHasVoted')]_vars

\* the end of the scenario: a vote was refused with "Voting is closed." in
\* the state alice's vote has left
C21_Witness ==
  /\ AliceHasVoted
  /\ ~votingActive
  /\ last.op = "vote" /\ last.error = PollClosedError

-----------------------------------------------------------------------------
(* BlockchainService.isChainValid: an async loop that is suspended at        *)
(* await sha256(input) once for every block it checks                        *)

\* faulty variant of LinkBroken: currentBlock is read from the chain's end
LinkBrokenAtTail(ch, i) == ch[Len(ch)].previousHash # ch[i].hash

\* currentBlock.previousHash !== previousBlock.hash, for i counted from 0
LinkBroken(ch, i) == ch[i + 1].previousHash # ch[i].hash

\* faulty variant of HashBroken: the leading zeros are demanded as well
HashBrokenOrUnmined(currentBlock) ==
  \/ sha256(HashInput(currentBlock.index, currentBlock.previousHash,
                      currentBlock.timestamp, currentBlock.data,
                      currentBlock.nonce)) # currentBlock.hash
  \/ ~MeetsDifficulty(currentBlock.hash)

\* validHash !== currentBlock.hash
HashBroken(currentBlock) ==
  sha256(HashInput(currentBlock.index, currentBlock.previousHash,
                   currentBlock.timestamp, currentBlock.data,
                   currentBlock.nonce)) # currentBlock.hash

\* the loop from its test i < chain.length to the next await or return
ValidateFrom(ch, i) ==
  IF i >= Len(ch) THEN [done |-> TRUE, valid |-> TRUE]
  ELSE IF LinkBroken(ch, i) THEN [done |-> TRUE, valid |-> FALSE]
  ELSE [done |-> FALSE, valid |-> FALSE]

\* a run of isChainValid suspended at its await, checking block i
PendingValidation(i, currentBlock) ==
  [op |-> "isChainValid", stage |-> "hashing", i |-> i,
   currentBlock |-> currentBlock]

\* what a run of isChainValid has returned
Validated(valid) ==
  [op |-> "isChainValid", status |-> 0, error |-> "", block |-> NoBlock,
   raced |-> FALSE, valid |-> valid]

\* the run goes on at position i: it returns, or is suspended at block i
ValidateOn(others, i) ==
  LET r == ValidateFrom(chain, i) IN
  IF r.done
    THEN /\ last' = Validated(r.valid)
         /\ inflight' = others
    ELSE /\ inflight' = others \cup {PendingValidation(i, chain[i + 1])}
         /\ UNCHANGED last

\* isChainValid() is called: the loop starts at i = 1
IsChainValidCall ==
  /\ Cardinality(inflight) < MaxInflight
  /\ \A call \in inflight : call.op # "isChainValid"
  /\ ValidateOn(inflight, 1)
  /\ UNCHANGED <<chain, candidates, votingActive, now>>
  /\ UNCHANGED <<otpStore, app, login>>

\* the run goes on after await sha256(input)
IsChainValidResume ==
  \E call \in inflight :
    /\ call.op = "isChainValid"
    /\ IF HashBroken(call.currentBlock)
         THEN /\ last' = Validated(FALSE)
              /\ inflight' = inflight \ {call}
         ELSE ValidateOn(inflight \ {call}, call.i + 1)
    /\ UNCHANGED <<chain, candidates, votingActive, now>>
    /\ UNCHANGED <<otpStore, app, login>>

\* createBlock with a nonce that was not searched for
UnminedBlock(ch, data, previousHash, timestamp, nonce) ==
  [ index        |-> Len(ch),
    timestamp    |-> timestamp,
    data         |-> data,
    previousHash |-> previousHash,
    hash         |-> sha256(HashInput(Len(ch), previousHash, timestamp, data,
                                      nonce)),
    nonce        |-> nonce ]

\* payloads of the vote blocks of the chains given to isChainValid
ValidationData ==
  [voterId : {VoterHash(e) : e \in Emails}, candidateId : {<<"c", "1">>},
   timestamp : 0..MaxTime]

\* the chains of one vote block on the genesis block, mined or not
OneVoteChains ==
  LET g == GenesisChain(0) IN
  {Push(g, UnminedBlock(g, d, g[1].hash, t, n)) :
     d \in ValidationData, t \in 0..MaxTime, n \in 0..Pow(HexBase, Difficulty)}

\* one more vote block, mined, on the chains of one mined vote block
TwoVoteChains ==
  {Push(ch, createBlock(ch, d, ch[2].hash, MaxTime)) :
     ch \in {c \in OneVoteChains : MeetsDifficulty(c[2].hash)},
     d \in {x \in ValidationData : x.timestamp = MaxTime}}

\* the chains isChainValid is run on: empty, the genesis block alone, linked
\* chains with and without leading zeros, and those with one field of one
\* block changed
ValidationInputs ==
  LET linked == OneVoteChains \cup TwoVoteChains IN
  {<<>>, GenesisChain(0)} \cup linked
  \cup UNION {{[ch EXCEPT ![i] = b] : b \in Tampered(ch, ch[i])} :
                ch \in TwoVoteChains, i \in 2..3}

InitValidate ==
  /\ now = 0
  /\ chain \in ValidationInputs
  /\ candidates = <<>>
  /\ votingActive = FALSE
  /\ inflight = {}
  /\ last = NoResponse
  /\ otpStore = NoOtps
  /\ app = AppInit
  /\ login = LoginInit

\* runs of isChainValid on a chain that does not change
NextValidate == IsChainValidCall \/ IsChainValidResume

SpecValidate == InitValidate /\ [][NextValidate]_vars

\* every block after the first carries its predecessor's hash and the digest
\* of its own stored fields
LinkedAndReproducible(ch) ==
  \A i \in 2..Len(ch) :
    /\ ch[i].previousHash = ch[i - 1].hash
    /\ ch[i].hash = sha256(HashInput(ch[i].index, ch[i].previousHash,
                                     ch[i].timestamp, ch[i].data, ch[i].nonce))

\* this step ends a run of isChainValid
ValidationReturns ==
  /\ last'.op = "isChainValid"
  /\ \A call \in inflight' : call.op # "isChainValid"
  /\ \/ \E call \in inflight : call.op = "isChainValid"
     \/ Len(chain) <= 1
     \/ LinkBroken(chain, 1)

\* C22: a run of isChainValid returns true exactly when every block after
\* the first is linked to its predecessor and has a reproducible hash; the
\* leading zeros are not looked at, and chains of length 0 or 1 are accepted.
C22_ValidateExact ==
  [][ValidationReturns
       => /\ last'.valid = LinkedAndReproducible(chain)
          /\ Len(chain) <= 1 => last'.valid]_vars

\* a linked chain with a reproducible hash that lacks the leading zeros was
\* accepted
C22_Witness ==
  /\ last.op = "isChainValid" /\ last.valid
  /\ inflight = {}
  /\ Len(chain) = 2
  /\ chain[2].hash[1] # "0"

-----------------------------------------------------------------------------
(* isChainValid run while the ledger is in use: the App has called           *)
(* createGenesisBlock once and awaits each addVote before the next           *)

\* the mount effect's createGenesisBlock()
InitChainOnce ==
  /\ chain = <<>>
  /\ \A call \in inflight : call.op # "createGenesisBlock"
  /\ CreateGenesisBlockCall

\* addVote called while no other ledger call is in progress
AddVoteAlone ==
  /\ \A call \in inflight : call.op = "isChainValid"
  /\ AddVoteCall

NextValidateWhileVoting ==
  \/ InitChainOnce
  \/ CreateGenesisBlockPush
  \/ AddVoteAlone
  \/ AddVoteMine
  \/ AddVotePush
  \/ IsChainValidCall
  \/ IsChainValidResume

SpecValidateWhileVoting == InitClient /\ [][NextValidateWhileVoting]_vars

\* the runs of isChainValid that are suspended
Validations(calls) == {call \in calls : call.op = "isChainValid"}

NextClientVotes ==
  \/ InitChainOnce
  \/ CreateGenesisBlockPush
  \/ AddVoteCall
  \/ AddVoteMine
  \/ AddVotePush

SpecClientVotes == InitClient /\ [][NextClientVotes]_vars

\* C24, as stated: in the ledger kept in the browser every vote block has,
\* at the moment it is pushed, the chain's length as its index and the hash
\* of the chain's tail as its previousHash.
C24_AppendPrecondition ==
  [][(/\ Len(chain) >= 1
      /\ Len(chain') = Len(chain) + 1
      /\ TailOf(chain').data.voterId # GENESIS)
       => /\ TailOf(chain').index = Len(chain)
          /\ TailOf(chain').previousHash = TailOf(chain).hash]_vars

\* C25, as stated: the ledger kept in the browser never holds two vote
\* blocks with the same voterId, however the calls of handleVote, each one
\* addVote for the logged-in user, overlap.
C25_ClientNoDoubleVote ==
  \A i \in VoteBlocks(chain) : \A j \in VoteBlocks(chain) :
    i # j => chain[i].data.voterId # chain[j].data.voterId

\* C26: in every reachable state of the server the chain is not empty and
\* the block at every position i, counted from 0, has index i.
C26_IndexContiguous ==
  /\ Len(chain) >= 1
  /\ \A i \in 1..Len(chain) : chain[i].index = i - 1

\* both voters' blocks are in the chain, at the positions 1 and 2
C26_Witness ==
  /\ Len(chain) = 3
  /\ chain[2].index = 1 /\ chain[3].index = 2
  /\ chain[2].data.voterId # chain[3].data.voterId

\* C27: a vote request handled while polling is closed is answered "Voting
\* is closed." whatever its body, one without an email included, for which
\* computing the voter's digest would throw; "You have already voted." is
\* answered only while polling is open.
C27_PollCheckedFirst ==
  [][\A body \in VoteBodies :
       VoteStep(body)
         => /\ ~votingActive => last'.error = PollClosedError
            /\ (~votingActive /\ body.email = Undefined) => last'.status = 400
            /\ last'.error = DuplicateVoteError => votingActive]_vars

\* with both voters' blocks in the chain and polling closed, a request was
\* answered "Voting is closed."
C27_Witness ==
  /\ ~votingActive
  /\ last.op = "vote" /\ last.error = PollClosedError /\ last.status = 400
  /\ \A e \in Emails : DigestPresent(chain, e)

\* the digest of a block's stored fields with another nonce
HashAt(b, n) ==
  sha256(HashInput(b.index, b.previousHash, b.timestamp, b.data, n))

\* the digest begins with difficulty zeros
Mined(hash) ==
  Len(hash) >= Difficulty /\ \A k \in 1..Difficulty : hash[k] = "0"

\* C28: every block's nonce n satisfies the difficulty predicate for the
\* block's stored fields, and no nonce in 0..n-1 does.
C28_SmallestNonce ==
  \A i \in 1..Len(chain) :
    /\ chain[i].nonce >= 0
    /\ Mined(HashAt(chain[i], chain[i].nonce))
    /\ \A n \in 0..(chain[i].nonce - 1) : ~Mined(HashAt(chain[i], n))

\* the chain holds a block found at the first attempt and one found after
\* three failed attempts
C28_Witness ==
  /\ \E i \in 1..Len(chain) : chain[i].nonce = 0
  /\ \E i \in 1..Len(chain) : chain[i].nonce = 3

\* C29: the block createBlock returns to the vote handler has the chain's
\* length at the call as index, the tail's hash and the payload it was given,
\* and one timestamp, the one its hash was computed with at every attempt;
\* createBlock itself leaves the chain alone: after the handler the chain is
\* the old chain with that block appended by the handler's push.
C29_CreateBlockPure ==
  [][\A body \in VoteBodies :
       (last'.status = 200 /\ VoteStep(body))
         => LET b == last'.block IN
            /\ b.index = Len(chain)
            /\ b.previousHash = TailOf(chain).hash
            /\ b.data.voterId = Anonymize(body.email)
            /\ b.data.candidateId = body.candidateId
            /\ b.data.timestamp \in now..now'
            /\ b.timestamp = now'
            /\ b.hash = HashAt(b, b.nonce)
            /\ chain' = Append(chain, b)]_vars

\* a block was returned whose payload was stamped before createBlock read
\* the clock and whose nonce was found after failed attempts
C29_Witness ==
  /\ last.op = "vote" /\ last.status = 200
  /\ last.block.data.timestamp = 0
  /\ last.block.timestamp = 1
  /\ last.block.nonce >= 1

-----------------------------------------------------------------------------
(* The vote handler with the attempts of createBlock's loop as steps.  The   *)
(* loop is synchronous: while it runs the event loop handles nothing else.   *)

\* the handler inside createBlock's loop: last holds the loop's variables
Mining(body, data, previousHash, index, timestamp, nonce) ==
  [op |-> "mining", status |-> 0, error |-> "", block |-> NoBlock,
   raced |-> FALSE, body |-> body, data |-> data,
   previousHash |-> previousHash, index |-> index, timestamp |-> timestamp,
   nonce |-> nonce]

\* faulty variant of NextNonce: the nonce is not advanced
NextNonceSame(nonce) == nonce

\* nonce++
NextNonce(nonce) == nonce + 1

\* the handler from its start to the loop's first attempt, or to its
\* rejection
VoteEnter ==
  \E body \in VoteBodies :
    /\ last.op # "mining"
    /\ inflight = {}
    /\ IF PostVote(chain, candidates, votingActive, body, now, now).status # 200
         THEN HandleVote(body, {})
         ELSE \E t1 \in now..MaxTime : \E t2 \in t1..MaxTime :
                /\ last' = Mining(body,
                                  [voterId |-> VoterHash(body.email),
                                   candidateId |-> body.candidateId,
                                   timestamp |-> t1],
                                  PreviousBlock(chain).hash, Len(chain), t2, 0)
                /\ now' = t2
                /\ UNCHANGED <<chain, candidates, votingActive>>
    /\ UNCHANGED inflight
    /\ UNCHANGED <<otpStore, app, login>>

\* sha256(input) of the attempt the loop is at
AttemptHash ==
  sha256(HashInput(last.index, last.previousHash, last.timestamp, last.data,
                   last.nonce))

\* an attempt whose hash lacks the prefix: nonce++
MineRetry ==
  /\ last.op = "mining"
  /\ ~MeetsDifficulty(AttemptHash)
  /\ last' = [last EXCEPT !.nonce = NextNonce(@)]
  /\ UNCHANGED <<chain, candidates, votingActive, now, inflight>>
  /\ UNCHANGED <<otpStore, app, login>>

\* an attempt whose hash has the prefix: break, and the handler pushes the
\* block, counts the vote and answers
MineBreak ==
  /\ last.op = "mining"
  /\ MeetsDifficulty(AttemptHash)
  /\ LET newBlock == [ index        |-> last.index,
                       timestamp    |-> last.timestamp,
                       data         |-> last.data,
                       previousHash |-> last.previousHash,
                       hash         |-> AttemptHash,
                       nonce        |-> last.nonce ]
     IN  /\ chain' = Push(chain, newBlock)
         /\ candidates' = CountVote(candidates, last.body.candidateId)
         /\ last' = Response("vote", 200, "", newBlock, FALSE)
  /\ UNCHANGED <<votingActive, now, inflight>>
  /\ UNCHANGED <<otpStore, app, login>>

\* a toggle handled between two vote requests
ToggleBetween == last.op # "mining" /\ Toggle

NextMining == VoteEnter \/ MineRetry \/ MineBreak \/ ToggleBetween

\* the loop goes on running: nothing else can take the thread from it
SpecMining ==
  /\ Init
  /\ [][NextMining]_vars
  /\ WF_vars(MineRetry)
  /\ WF_vars(MineBreak)

\* C30: a vote request that has passed the poll-open and duplicate checks
\* and entered createBlock's loop eventually leaves it: its block is then
\* the chain's tail and the response's block.
C30_MiningTerminates ==
  (last.op = "mining")
    ~> (/\ last.op = "vote" /\ last.status = 200
        /\ last.block = TailOf(chain)
        /\ MeetsDifficulty(last.block.hash))

\* the loop is at its fourth attempt, after three that failed
C30_Witness ==
  /\ last.op = "mining"
  /\ last.nonce = 3
  /\ Len(chain) = 2

-----------------------------------------------------------------------------
(* Adding a candidate *)

\* C38: addCandidate stores every accepted candidate with voteCount 0
\* whatever voteCount the request carried, appends it at the end of the
\* registry without changing the entries before it, and answers a request
\* without an id with an error, the registry left as it was.
C38_AddCandidate ==
  [][\A body \in CandidateBodies :
       AddCandidateOf(body) =>
         IF body.id = Undefined \/ body.id = <<>>
           THEN /\ candidates' = candidates
                /\ PostCandidate(candidates, body).status = 400
                /\ PostCandidate(candidates, body).error # ""
           ELSE /\ Len(candidates') = Len(candidates) + 1
                /\ SubSeq(candidates', 1, Len(candidates)) = candidates
                /\ TailOf(candidates').id = body.id
                /\ TailOf(candidates').voteCount = 0
                /\ PostCandidate(candidates, body).status = 200]_vars

\* a candidate was added after a vote had been counted for another one
C38_Witness ==
  /\ Len(candidates) = 2
  /\ candidates[1].voteCount > 0
  /\ candidates[2].voteCount = 0

-----------------------------------------------------------------------------
(* The displayed winner *)

\* return null
Null == [id |-> <<"null">>, voteCount |-> -1]

\* faulty variant of WinnerOf: a tie goes to the candidate listed earlier
WinnerOfEarlier(prev, current) ==
  IF prev.voteCount >= current.voteCount THEN prev ELSE current

\* (prev, current) => (prev.voteCount > current.voteCount) ? prev : current
WinnerOf(prev, current) ==
  IF prev.voteCount > current.voteCount THEN prev ELSE current

\* candidates.reduce(callback) with no initial value: the first entry is the
\* first prev
RECURSIVE ReduceFrom(_, _)
ReduceFrom(prev, rest) ==
  IF rest = <<>> THEN prev
  ELSE ReduceFrom(WinnerOf(prev, Head(rest)), Tail(rest))

\* Results: the winner shown on the results screen
ResultsWinner(cands) ==
  IF Len(cands) = 0 THEN Null ELSE ReduceFrom(Head(cands), Tail(cands))

\* candidates.some(c => c.voteCount > 0)
HasVotes(cands) == \E i \in 1..Len(cands) : cands[i].voteCount > 0

\* AdminDashboard: the winner shown on the admin dashboard
AdminWinner(cands) ==
  IF Len(cands) = 0 THEN Null
  ELSE IF ~HasVotes(cands) THEN Null
  ELSE ReduceFrom(Head(cands), Tail(cands))

\* the last position holding the largest voteCount of a non-empty registry
LastLeader(cands) ==
  CHOOSE i \in 1..Len(cands) :
    /\ \A j \in 1..Len(cands) : cands[j].voteCount <= cands[i].voteCount
    /\ \A j \in (i + 1)..Len(cands) : cands[j].voteCount < cands[i].voteCount

-----------------------------------------------------------------------------
(* One-time passwords: POST /api/auth/send-otp and /api/auth/verify-otp *)

\* expires: Date.now() + 5 * 60 * 1000
OtpLifetime == 300000

\* otpStore.set(key, value)
MapSet(store, key, value) ==
  [k \in DOMAIN store \cup {key} |-> IF k = key THEN value ELSE store[k]]

\* otpStore.delete(key)
MapDelete(store, key) == [k \in DOMAIN store \ {key} |-> store[k]]

\* Math.floor(100000 + Math.random() * 900000).toString(): the smallest and
\* the largest code
OtpCodes == { <<"1", "0", "0", "0", "0", "0">>, <<"9", "9", "9", "9", "9", "9">> }

\* bodies of POST /api/auth/send-otp
SendOtpBodies == [email : {<<"a">>, <<"b">>, <<>>, Undefined}]

\* bodies of POST /api/auth/verify-otp
VerifyOtpBodies ==
  [email : {<<"a">>, <<"b">>, Undefined}, otp : OtpCodes \cup {Undefined}]

EmailRequiredError == "Email required"
MailFailedError == "Failed to send email. Please check server logs."
NoOtpError == "No OTP requested for this email"
OtpExpiredError == "OTP expired. Please request a new one."
InvalidOtpError == "Invalid OTP"

\* the handler of send-otp as a function of the store, the request, the
\* clock, the code drawn and whether the mail transport delivers
PostSendOtp(store, body, t, otp, mailed) ==
  IF body.email = Undefined \/ body.email = <<>>
    THEN [otpStore |-> store, status |-> 400, error |-> EmailRequiredError]
    ELSE [otpStore |-> MapSet(store, body.email,
                              [otp |-> otp, expires |-> t + OtpLifetime]),
          status |-> IF mailed THEN 200 ELSE 500,
          error |-> IF mailed THEN "" ELSE MailFailedError]

\* faulty variant of PostVerifyOtp: a used record is kept
PostVerifyOtpKeepUsed(store, body, t) ==
  IF body.email \notin DOMAIN store
    THEN [otpStore |-> store, status |-> 400, error |-> NoOtpError]
  ELSE IF t > store[body.email].expires
    THEN [otpStore |-> MapDelete(store, body.email), status |-> 400,
          error |-> OtpExpiredError]
  ELSE IF store[body.email].otp = body.otp
    THEN [otpStore |-> store, status |-> 200, error |-> ""]
  ELSE [otpStore |-> store, status |-> 400, error |-> InvalidOtpError]

\* faulty variant of PostVerifyOtp: the expiry is not looked at
PostVerifyOtpNoExpiry(store, body, t) ==
  IF body.email \notin DOMAIN store
    THEN [otpStore |-> store, status |-> 400, error |-> NoOtpError]
  ELSE IF store[body.email].otp = body.otp
    THEN [otpStore |-> MapDelete(store, body.email), status |-> 200,
          error |-> ""]
  ELSE [otpStore |-> store, status |-> 400, error |-> InvalidOtpError]

\* the handler of verify-otp as a function of the store, the request and
\* the clock
PostVerifyOtp(store, body, t) ==
  IF body.email \notin DOMAIN store
    THEN [otpStore |-> store, status |-> 400, error |-> NoOtpError]
  ELSE IF t > store[body.email].expires
    THEN [otpStore |-> MapDelete(store, body.email), status |-> 400,
          error |-> OtpExpiredError]
  ELSE IF store[body.email].otp = body.otp
    THEN [otpStore |-> MapDelete(store, body.email), status |-> 200,
          error |-> ""]
  ELSE [otpStore |-> store, status |-> 400, error |-> InvalidOtpError]

\* the response to an OTP request, with the request it answers
OtpResponse(op, out, body) ==
  [op |-> op, status |-> out.status, error |-> out.error, block |-> NoBlock,
   raced |-> FALSE, request |-> body]

\* POST /api/auth/send-otp with body as the request and otp the code drawn
SendOtpOf(body, otp, mailed) ==
  LET out == PostSendOtp(otpStore, body, now, otp, mailed) IN
  /\ otpStore' = out.otpStore
  /\ last' = OtpResponse("send-otp", out, body)
  /\ UNCHANGED <<chain, candidates, votingActive, now, inflight, app, login>>

\* POST /api/auth/send-otp
SendOtp ==
  \E body \in SendOtpBodies : \E otp \in OtpCodes : \E mailed \in BOOLEAN :
    SendOtpOf(body, otp, mailed)

\* POST /api/auth/verify-otp with body as the request
VerifyOtpOf(body) ==
  LET out == PostVerifyOtp(otpStore, body, now) IN
  /\ otpStore' = out.otpStore
  /\ last' = OtpResponse("verify-otp", out, body)
  /\ UNCHANGED <<chain, candidates, votingActive, now, inflight, app, login>>

\* POST /api/auth/verify-otp
VerifyOtp == \E body \in VerifyOtpBodies : VerifyOtpOf(body)

\* the instants the handlers read the clock at: up to MaxTime milliseconds
\* after a whole number of lifetimes
OtpInstants ==
  {k * OtpLifetime + d : k \in 0..MaxOtpLifetimes, d \in 0..MaxTime}

\* time passes between two requests
OtpTick ==
  /\ \E t \in OtpInstants : t > now /\ now' = t
  /\ UNCHANGED <<chain, candidates, votingActive, inflight, last, otpStore,
                 app, login>>

NextOtp == SendOtp \/ VerifyOtp \/ OtpTick

\* the server's OTP routes
SpecOtp == Init /\ [][NextOtp]_vars

\* C31: an OTP is single-use: a successful verify-otp removes the email's
\* record, an email without a record gets one only by a send-otp for it,
\* and until then every verify-otp for it fails, whatever the code.
C31_OtpSingleUse ==
  [][/\ \A body \in VerifyOtpBodies :
          VerifyOtpOf(body) =>
            /\ last'.status = 200 => body.email \notin DOMAIN otpStore'
            /\ body.email \notin DOMAIN otpStore =>
                 /\ last'.status = 400
                 /\ body.email \notin DOMAIN otpStore'
     /\ \A email \in DOMAIN otpStore' \ DOMAIN otpStore :
          /\ last'.op = "send-otp"
          /\ last'.request.email = email]_vars

\* a code has just been used: its record is gone while the other email's
\* record is still there
C31_Witness ==
  /\ last.op = "verify-otp"
  /\ last.status = 200
  /\ last.request.email \notin DOMAIN otpStore
  /\ DOMAIN otpStore # {}

\* C32: verify-otp succeeds only if the email has a record, the clock is
\* not past the record's expiry, which is 5 minutes after the latest
\* send-otp for the email, and the code is the one that send-otp stored
\* (each send-otp overwrites the record); an expired record is deleted on
\* the attempt, and a wrong code leaves the record in place.
C32_OtpVerify ==
  [][/\ \A body \in VerifyOtpBodies :
          VerifyOtpOf(body) =>
            LET had == body.email \in DOMAIN otpStore
                record == otpStore[body.email]
            IN  /\ last'.status = 200 <=>
                     (had /\ now <= record.expires /\ body.otp = record.otp)
                /\ (had /\ now > record.expires) =>
                     /\ body.email \notin DOMAIN otpStore'
                     /\ last'.error = OtpExpiredError
                /\ (had /\ now <= record.expires /\ body.otp # record.otp) =>
                     /\ otpStore' = otpStore
                     /\ last'.error = InvalidOtpError
     /\ \A body \in SendOtpBodies : \A otp \in OtpCodes : \A mailed \in BOOLEAN :
          (SendOtpOf(body, otp, mailed) /\ body.email \in {<<"a">>, <<"b">>}) =>
            /\ otpStore'[body.email] =
                 [otp |-> otp, expires |-> now + 5 * 60 * 1000]
            /\ \A other \in DOMAIN otpStore \ {body.email} :
                 /\ other \in DOMAIN otpStore'
                 /\ otpStore'[other] = otpStore[other]
     /\ \A email \in DOMAIN otpStore \cap DOMAIN otpStore' :
          otpStore'[email] # otpStore[email] =>
            /\ last'.op = "send-otp"
            /\ last'.request.email = email]_vars

\* a record that was overwritten by a second send-otp expired and was
\* deleted on the attempt to use it
C32_Witness ==
  /\ last.op = "verify-otp"
  /\ last.error = OtpExpiredError
  /\ last.request.email \notin DOMAIN otpStore
  /\ now = 2 * OtpLifetime

-----------------------------------------------------------------------------
(* The server-backed App (src/unnamed/part_002): one browser and the        *)
(* server.  The browser's async functions are steps between awaits;         *)
(* inflight holds the calls in progress with what their closures captured   *)
(* and what they have received.  React commits the state a step sets and    *)
(* then runs the effects whose dependencies changed, all within the step.   *)

\* the users onLogin is called with
Users ==
  { [email |-> <<"a">>, role |-> "VOTER"],
    [email |-> <<"r">>, role |-> "ADMIN"] }

\* hashEmail(email): SHA-256 of email.toLowerCase().trim()
hashEmail(email) == sha256(Trim(ToLowerCase(email)))

\* chain.slice(1).some(b => b.data.voterId === myHash)
SomeVoteOf(ch, myHash) ==
  \E i \in 2..Len(ch) : ch[i].data.voterId = myHash

\* the effect on [votingActive, hasVoted, user]
StateTransitionEffect(a) ==
  IF a.user = NoUser THEN a
  ELSE IF a.user.role = "VOTER"
    THEN IF a.hasVoted
           THEN [a EXCEPT !.appState =
                            IF ~a.votingActive THEN "RESULTS" ELSE "VOTING"]
           ELSE [a EXCEPT !.appState =
                            IF a.votingActive THEN "VOTING" ELSE "RESULTS"]
  ELSE a

\* React commits the state next, set while the state was prev: the effect
\* runs when one of its dependencies changed
Commit(prev, next) ==
  IF <<next.votingActive, next.hasVoted, next.user>>
       # <<prev.votingActive, prev.hasVoted, prev.user>>
    THEN StateTransitionEffect(next)
    ELSE next

\* what VotingBooth renders
VotingBoothView(voted, electionEnded) ==
  IF electionEnded THEN "ended"
  ELSE IF voted THEN "receipt"
  ELSE "ballot"

\* renderContent(): the screen shown in state a
View(a) ==
  IF a.isLoading /\ a.user = NoUser THEN "loading"
  ELSE IF a.appState = "LOGIN" THEN "login"
  ELSE IF a.appState = "ADMIN" THEN "admin"
  ELSE IF a.appState = "VOTING"
    THEN IF ~a.votingActive /\ ~a.hasVoted THEN "results"
         ELSE VotingBoothView(a.hasVoted, ~a.votingActive /\ ~a.hasVoted)
  ELSE "results"

\* a call of the browser in progress: user is the user its closure
\* captured, data the state it captured or received
AppCall(op, stage, user, candidateId, data) ==
  [op |-> op, stage |-> stage, user |-> user, candidateId |-> candidateId,
   data |-> data]

NoData == [candidates |-> <<>>, chain |-> <<>>, votingActive |-> FALSE]

AppRoom == Cardinality(inflight) < MaxAppCalls

\* fetchState() is called by the interval or on mount: the request is sent
FetchStateCall ==
  LET call == AppCall("fetchState", "sent", app.user, <<>>, NoData) IN
  /\ AppRoom
  /\ call \notin inflight
  /\ inflight' = inflight \cup {call}
  /\ UNCHANGED <<chain, candidates, votingActive, now, last, otpStore, app,
                 login>>

\* the server handles the GET /api/state of a call
FetchStateServe ==
  \E call \in inflight :
    /\ call.op = "fetchState" /\ call.stage = "sent"
    /\ inflight' = (inflight \ {call})
                   \cup {[call EXCEPT
                            !.stage = "answered",
                            !.data = StateJson(candidates, chain,
                                               votingActive)]}
    /\ UNCHANGED <<chain, candidates, votingActive, now, last, otpStore, app,
                   login>>

\* fetch throws: catch, finally setIsLoading(false)
FetchStateFail ==
  \E call \in inflight :
    /\ call.op = "fetchState" /\ call.stage = "sent"
    /\ inflight' = inflight \ {call}
    /\ app' = [app EXCEPT !.isLoading = FALSE]
    /\ UNCHANGED <<chain, candidates, votingActive, now, last, otpStore,
                   login>>

\* fetchState after await res.json(): the three setters, and then either
\* await hashEmail(user.email) or the end of the call
FetchStateDeliver ==
  \E call \in inflight :
    /\ call.op = "fetchState" /\ call.stage = "answered"
    /\ LET set == [app EXCEPT !.candidates = call.data.candidates,
                              !.chain = call.data.chain,
                              !.votingActive = call.data.votingActive]
       IN  IF call.user # NoUser /\ call.user.role # "ADMIN"
             THEN /\ app' = Commit(app, set)
                  /\ inflight' = (inflight \ {call})
                                 \cup {[call EXCEPT !.stage = "hashing"]}
             ELSE /\ app' = Commit(app, [set EXCEPT !.isLoading = FALSE])
                  /\ inflight' = inflight \ {call}
    /\ UNCHANGED <<chain, candidates, votingActive, now, last, otpStore,
                   login>>

\* fetchState after await hashEmail(user.email): setHasVoted(voted), and
\* finally setIsLoading(false)
FetchStateHashed ==
  \E call \in inflight :
    /\ call.op = "fetchState" /\ call.stage = "hashing"
    /\ app' = Commit(app, [app EXCEPT
                             !.hasVoted = SomeVoteOf(call.data.chain,
                                                     hashEmail(call.user.email)),
                             !.isLoading = FALSE])
    /\ inflight' = inflight \ {call}
    /\ UNCHANGED <<chain, candidates, votingActive, now, last, otpStore,
                   login>>

\* handleLogin(loggedInUser) up to await hashEmail, or to its end for an
\* admin; calls are the other calls in progress
OnLogin(loggedInUser, calls) ==
  IF loggedInUser.role = "ADMIN"
    THEN /\ app' = Commit(app, [app EXCEPT !.user = loggedInUser,
                                           !.appState = "ADMIN"])
         /\ inflight' = calls
    ELSE /\ Cardinality(calls) < MaxAppCalls
         /\ app' = Commit(app, [app EXCEPT !.user = loggedInUser])
         /\ inflight' = calls
              \cup {AppCall("handleLogin", "hashing", loggedInUser, <<>>,
                            StateJson(app.candidates, app.chain,
                                      app.votingActive))}

\* Login calls onLogin
LoginAs ==
  \E loggedInUser \in Users :
    /\ View(app) = "login"
    /\ OnLogin(loggedInUser, inflight)
    /\ UNCHANGED <<chain, candidates, votingActive, now, last, otpStore,
                   login>>

\* handleLogin after await hashEmail: setHasVoted(voted) and the screen
\* chosen from the chain and votingActive the closure holds
HandleLoginResume ==
  \E call \in inflight :
    /\ call.op = "handleLogin"
    /\ LET voted == SomeVoteOf(call.data.chain, hashEmail(call.user.email))
       IN  app' = Commit(app,
                         [app EXCEPT
                            !.hasVoted = voted,
                            !.appState =
                               IF voted THEN "VOTING"
                               ELSE IF ~call.data.votingActive THEN "RESULTS"
                               ELSE "VOTING"])
    /\ inflight' = inflight \ {call}
    /\ UNCHANGED <<chain, candidates, votingActive, now, last, otpStore,
                   login>>

\* handleLogout
HandleLogout ==
  /\ app.user # NoUser
  /\ app' = Commit(app, [app EXCEPT !.user = NoUser, !.appState = "LOGIN",
                                    !.hasVoted = FALSE])
  /\ UNCHANGED <<chain, candidates, votingActive, now, inflight, last,
                 otpStore, login>>

\* a vote button of the ballot is pressed: handleVote(candidateId) sends
\* the request; the buttons are disabled while a vote is in progress
HandleVoteCall ==
  \E candidateId \in {<<"c", "1">>} :
    /\ View(app) = "ballot"
    /\ app.user # NoUser
    /\ \A call \in inflight : call.op # "handleVote"
    /\ AppRoom
    /\ inflight' = inflight
         \cup {AppCall("handleVote", "sent", app.user, candidateId, NoData)}
    /\ UNCHANGED <<chain, candidates, votingActive, now, last, otpStore, app,
                   login>>

\* the server handles the POST /api/vote of a call; the server's clock is
\* read as it stands
HandleVoteServe ==
  \E call \in inflight :
    /\ call.op = "handleVote" /\ call.stage = "sent"
    /\ HandleVoteAt([email |-> call.user.email,
                     candidateId |-> call.candidateId], {}, now, now)
    /\ inflight' = (inflight \ {call})
         \cup {[call EXCEPT
                  !.stage = IF last'.status = 200 THEN "ok" ELSE "failed"]}
    /\ UNCHANGED app

\* handleVote after await fetch: setHasVoted(true) and fetchState(), or
\* the alert
HandleVoteDeliver ==
  \E call \in inflight :
    /\ call.op = "handleVote" /\ call.stage \in {"ok", "failed"}
    /\ IF call.stage = "ok"
         THEN /\ app' = Commit(app, [app EXCEPT !.hasVoted = TRUE])
              /\ inflight' = (inflight \ {call})
                   \cup {AppCall("fetchState", "sent", call.user, <<>>,
                                 NoData)}
         ELSE /\ inflight' = inflight \ {call}
              /\ UNCHANGED app
    /\ UNCHANGED <<chain, candidates, votingActive, now, last, otpStore,
                   login>>

\* a vote cast from another browser
VoteElsewhere ==
  /\ HandleVoteAt([email |-> <<"b">>, candidateId |-> <<"c", "1">>], {},
                  now, now)
  /\ UNCHANGED <<inflight, app>>

\* the server with one candidate registered, and the App just mounted
InitApp ==
  /\ now = 0
  /\ chain = GenesisChain(0)
  /\ candidates = <<[id |-> <<"c", "1">>, voteCount |-> 0]>>
  /\ votingActive = FALSE
  /\ inflight = {}
  /\ last = NoResponse
  /\ otpStore = NoOtps
  /\ app = AppInit
  /\ login = LoginInit

NextApp ==
  \/ FetchStateCall
  \/ FetchStateServe
  \/ FetchStateFail
  \/ FetchStateDeliver
  \/ FetchStateHashed
  \/ LoginAs
  \/ HandleLoginResume
  \/ HandleLogout
  \/ HandleVoteCall
  \/ HandleVoteServe
  \/ HandleVoteDeliver
  \/ VoteElsewhere
  \/ Toggle

SpecApp == InitApp /\ [][NextApp]_vars

\* C33: the chain copy the browser holds is at all times a prefix of the
\* server's chain, and so is every chain on its way to the browser, in
\* whatever order the responses to the state polls arrive.
C33_ClientChainPrefix ==
  /\ IsPrefix(app.chain, chain)
  /\ \A call \in inflight :
       call.op = "fetchState" => IsPrefix(call.data.chain, chain)

\* the browser holds a newer chain than a response that is still on its
\* way, and the server's chain has grown since
C33_Witness ==
  /\ Len(app.chain) = 2
  /\ Len(chain) = 3
  /\ \E call \in inflight :
       /\ call.op = "fetchState" /\ call.stage = "answered"
       /\ Len(call.data.chain) = 1

\* C34: once the vote request of the voter who is logged in has succeeded,
\* the browser's hasVoted stays true until logout: no response to a state
\* poll, one requested before the vote and delivered after it included,
\* sets it back to false.
C34_HasVotedStays ==
  [][(/\ app.user # NoUser
      /\ app'.user = app.user
      /\ SomeVoteOf(chain, hashEmail(app.user.email))
      /\ app.hasVoted
      /\ (FetchStateDeliver \/ FetchStateHashed))
       => app'.hasVoted]_vars

\* C35: for a voter who is logged in the ballot is rendered only when the
\* browser's votingActive is true and its hasVoted is false; with
\* votingActive false the voter sees the results or the election-ended
\* screen, and with hasVoted true the receipt or the results.
C35_BallotGating ==
  (app.user # NoUser /\ app.user.role = "VOTER") =>
    /\ View(app) = "ballot" => (app.votingActive /\ ~app.hasVoted)
    /\ ~app.votingActive => View(app) \in {"results", "ended"}
    /\ app.hasVoted => View(app) \in {"receipt", "results"}

-----------------------------------------------------------------------------
(* Login with the server's OTP routes (src/components/AdminDashboard.tsx,   *)
(* the second Login), mounted by App while its screen is the login screen.  *)

\* ADMIN_EMAILS
ADMIN_EMAILS ==
  { <<"s", "h", "a", "d", "o", "w", "7", "0", "9", "5", "6", "@", "g", "m", "a", "i", "l", ".", "c", "o", "m">>,
    <<"n", "a", "v", "g", "h", "a", "r", "e", "g", "a", "u", "r", "a", "v", "8", "0", "@", "g", "m", "a", "i", "l", ".", "c", "o", "m">> }

Letters == {"a", "b", "c", "A", "B", "C"}

\* STUDENT_EMAIL_REGEX.test(s): /^[a-zA-Z]+\.[0-9]+@vit\.edu$/ with the
\* letters of the model
IsStudentEmail(s) ==
  \E i \in 1..Len(s) : \E j \in (i + 2)..Len(s) :
    /\ \A k \in 1..i : s[k] \in Letters
    /\ s[i + 1] = "."
    /\ \A k \in (i + 2)..j : \E d \in 1..10 : s[k] = Digits[d]
    /\ SubSeq(s, j + 1, Len(s)) = <<"@", "v", "i", "t", ".", "e", "d", "u">>

\* what is typed into the email field: a student's email, the same with
\* capitals and spaces around it, an email without the number, an admin's
LoginEmails ==
  { <<"a", ".", "1", "@", "v", "i", "t", ".", "e", "d", "u">>,
    <<" ", "A", ".", "1", "@", "v", "i", "t", ".", "e", "d", "u", " ">>,
    <<"a", "@", "v", "i", "t", ".", "e", "d", "u">>,
    <<"s", "h", "a", "d", "o", "w", "7", "0", "9", "5", "6", "@", "g", "m", "a", "i", "l", ".", "c", "o", "m">> }

InvalidEmailError == "Invalid Email. Format must be: name.prn@vit.edu"

\* email.toLowerCase().trim()
LowerEmail(email) == Trim(ToLowerCase(email))

\* a call of Login in progress: lowerEmail and otp are what the request
\* carries
LoginCall(op, stage, lowerEmail, otp) ==
  [op |-> op, stage |-> stage, email |-> lowerEmail, otp |-> otp,
   error |-> ""]

\* Login is mounted while App renders the login screen
LoginMounted == View(app) = "login"

\* a key is pressed in the email field
TypeEmail ==
  \E email \in LoginEmails :
    /\ LoginMounted
    /\ login.step = "EMAIL"
    /\ login' = [login EXCEPT !.email = email]
    /\ UNCHANGED <<chain, candidates, votingActive, now, inflight, last,
                   otpStore, app>>

\* Send OTP is pressed: handleSendOtp() up to await fetch, or to the error
\* for an email that is neither an admin's nor a student's
HandleSendOtpCall ==
  LET lowerEmail == LowerEmail(login.email)
      isAdmin == lowerEmail \in ADMIN_EMAILS
      isStudent == IsStudentEmail(lowerEmail)
  IN  /\ LoginMounted
      /\ login.step = "EMAIL"
      /\ ~login.isLoading
      /\ IF ~isAdmin /\ ~isStudent
           THEN /\ login' = [login EXCEPT !.error = InvalidEmailError]
                /\ UNCHANGED inflight
           ELSE /\ AppRoom
                /\ login' = [login EXCEPT !.error = "", !.isLoading = TRUE]
                /\ inflight' = inflight
                     \cup {LoginCall("handleSendOtp", "sent", lowerEmail, <<>>)}
      /\ UNCHANGED <<chain, candidates, votingActive, now, last, otpStore,
                     app>>

\* the server handles the POST /api/auth/send-otp of a call
SendOtpServe ==
  \E call \in inflight : \E otp \in OtpCodes : \E mailed \in BOOLEAN :
    LET body == [email |-> call.email]
        out == PostSendOtp(otpStore, body, now, otp, mailed)
    IN  /\ call.op = "handleSendOtp" /\ call.stage = "sent"
        /\ otpStore' = out.otpStore
        /\ last' = OtpResponse("send-otp", out, body)
        /\ inflight' = (inflight \ {call})
             \cup {[call EXCEPT
                      !.stage = IF out.status = 200 THEN "ok" ELSE "failed",
                      !.error = out.error]}
        /\ UNCHANGED <<chain, candidates, votingActive, now, app, login>>

\* handleSendOtp after await res.json(): setStep('OTP') or the error, and
\* finally setIsLoading(false)
HandleSendOtpDeliver ==
  \E call \in inflight :
    /\ call.op = "handleSendOtp" /\ call.stage \in {"ok", "failed"}
    /\ login' = IF call.stage = "ok"
                  THEN [login EXCEPT !.step = "OTP", !.isLoading = FALSE]
                  ELSE [login EXCEPT !.error = call.error,
                                     !.isLoading = FALSE]
    /\ inflight' = inflight \ {call}
    /\ UNCHANGED <<chain, candidates, votingActive, now, last, otpStore,
                   app>>

\* a key is pressed in the code field
TypeOtp ==
  \E otp \in OtpCodes :
    /\ LoginMounted
    /\ login.step = "OTP"
    /\ login' = [login EXCEPT !.otp = otp]
    /\ UNCHANGED <<chain, candidates, votingActive, now, inflight, last,
                   otpStore, app>>

\* Back to Email is pressed
BackToEmail ==
  /\ LoginMounted
  /\ login.step = "OTP"
  /\ login' = [login EXCEPT !.step = "EMAIL", !.otp = <<>>, !.error = ""]
  /\ UNCHANGED <<chain, candidates, votingActive, now, inflight, last,
                 otpStore, app>>

\* Verify is pressed: handleVerifyOtp() up to await fetch
HandleVerifyOtpCall ==
  /\ LoginMounted
  /\ login.step = "OTP"
  /\ ~login.isLoading
  /\ login.otp # <<>>
  /\ AppRoom
  /\ login' = [login EXCEPT !.error = "", !.isLoading = TRUE]
  /\ inflight' = inflight
       \cup {LoginCall("handleVerifyOtp", "sent", LowerEmail(login.email),
                       login.otp)}
  /\ UNCHANGED <<chain, candidates, votingActive, now, last, otpStore, app>>

\* the server handles the POST /api/auth/verify-otp of a call
VerifyOtpServe ==
  \E call \in inflight :
    LET body == [email |-> call.email, otp |-> call.otp]
        out == PostVerifyOtp(otpStore, body, now)
    IN  /\ call.op = "handleVerifyOtp" /\ call.stage = "sent"
        /\ otpStore' = out.otpStore
        /\ last' = OtpResponse("verify-otp", out, body)
        /\ inflight' = (inflight \ {call})
             \cup {[call EXCEPT
                      !.stage = IF out.status = 200 THEN "ok" ELSE "failed",
                      !.error = out.error]}
        /\ UNCHANGED <<chain, candidates, votingActive, now, app, login>>

\* the user handleVerifyOtp builds for lowerEmail
UserData(lowerEmail) ==
  [email |-> lowerEmail,
   role |-> IF lowerEmail \in ADMIN_EMAILS THEN "ADMIN" ELSE "VOTER"]

\* handleVerifyOtp after await res.json(): onLogin(userData), after which
\* App renders another screen in place of Login, or the error
HandleVerifyOtpDeliver ==
  \E call \in inflight :
    /\ call.op = "handleVerifyOtp" /\ call.stage \in {"ok", "failed"}
    /\ IF call.stage = "ok"
         THEN /\ OnLogin(UserData(call.email), inflight \ {call})
              /\ login' = LoginInit
         ELSE /\ login' = [login EXCEPT !.error = call.error,
                                        !.isLoading = FALSE]
              /\ inflight' = inflight \ {call}
              /\ UNCHANGED app
    /\ UNCHANGED <<chain, candidates, votingActive, now, last, otpStore>>

NextLogin ==
  \/ FetchStateCall
  \/ FetchStateServe
  \/ FetchStateFail
  \/ FetchStateDeliver
  \/ FetchStateHashed
  \/ TypeEmail
  \/ HandleSendOtpCall
  \/ SendOtpServe
  \/ HandleSendOtpDeliver
  \/ TypeOtp
  \/ BackToEmail
  \/ HandleVerifyOtpCall
  \/ VerifyOtpServe
  \/ HandleVerifyOtpDeliver
  \/ HandleLoginResume

\* one browser logging in against the server's OTP routes
SpecLogin == InitApp /\ [][NextLogin]_vars

\* C36: onLogin is invoked only after the OTP step has succeeded for an
\* email that, lower-cased and trimmed, is in ADMIN_EMAILS or has the
\* student format; the OTP step is reachable only for such an email; the
\* user's role is ADMIN exactly when the email is in ADMIN_EMAILS, and
\* VOTER otherwise.
C36_LoginGating ==
  [][/\ login'.step = "OTP" =>
          \/ LowerEmail(login'.email) \in ADMIN_EMAILS
          \/ IsStudentEmail(LowerEmail(login'.email))
     /\ (app'.user # NoUser /\ app'.user # app.user) =>
          /\ \E call \in inflight :
               /\ call.op = "handleVerifyOtp" /\ call.stage = "ok"
               /\ call.email = app'.user.email
          /\ \/ app'.user.email \in ADMIN_EMAILS
             \/ IsStudentEmail(app'.user.email)
          /\ app'.user.role =
               IF app'.user.email \in ADMIN_EMAILS THEN "ADMIN" ELSE "VOTER"]_vars

====
